---- MODULE Spec2Model ----
(***************************************************************************)
(* Event workflow of the PGB event scheduler backend: the Event document,  *)
(* its departmentRequirements map and taggedDepartments list, the route    *)
(* handlers of routes/events.ts that mutate them, and the auto-complete    *)
(* sweep of the scheduler.                                                 *)
(***************************************************************************)
EXTENDS Integers, Sequences, FiniteSets, TLC

\* ---------------------------------------------------------------- bounds
\* Largest number of allocations (over all department lists) an Event holds.
MaxAllocs == 3
\* Largest number of requests served in one behaviour.
MaxRequests == 3
\* Largest value of the clock.
MaxTime == 3
\* Clock ticks in a day: endTime ranges over 0..TicksPerDay-1.
TicksPerDay == 2
\* Latest day an Event is scheduled on: endDate ranges over 0..MaxDay.
MaxDay == 1

\* ------------------------------------------------------------ input sets
Departments == {"A", "B", "C"}
ReqIds == {1, 2}
ReqNames == {"n1", "n2"}
\* JavaScript undefined / absent field.
None == "none"

\* UserSchema.role enum.
UserRoles == {"User", "Admin"}
\* The authenticated callers (req.user): the requestor, a department member
\* and an administrator.
Users ==
  { [id |-> "u1", role |-> "User", department |-> "C"],
    [id |-> "u2", role |-> "User", department |-> "A"],
    [id |-> "u3", role |-> "Admin", department |-> "B"] }

\* The callers that submit Events.
Requestors == {u \in Users : u.id = "u1"}

\* The role string PUT /:id/status compares req.user.role against.
PutStatusAdminRole == "admin"
\* The role string requireAdmin compares req.user.role against.
requireAdminRole == "Admin"

\* The statuses PATCH /:id/status accepts.
PatchValidStatuses == {"approved", "rejected", "submitted", "cancelled"}
\* The statuses PUT /:id/status accepts.
validStatuses == {"draft", "submitted", "approved", "rejected", "completed"}

VARIABLES
  event,          \* the Event document in the database
  notifications,  \* the Notification collection (id is a unique key)
  statusNotifications,   \* the legacy StatusNotification collection, in insertion order
  locationAvailabilities, \* the LocationAvailability collection
  resp,           \* the last request served: handler and HTTP status code
  served,         \* the number of requests served so far
  now,            \* the clock (Date.now())
  sweep,          \* the auto-complete sweep: position, its `now`, its documents
  edit,           \* the PATCH /:id/details request in flight, between its read and its write
  activityLogs,   \* the UserActivityLog collection, in insertion order
  resourceAvailabilities, \* the ResourceAvailability collection
  listing,        \* the body of the last listing response
  cleanup,        \* the result of the last run of the past-availability cleanup
  attachments,    \* Event.attachments: the stored file names, in order
  uploads,        \* the PATCH /:id/details requests carrying files, in flight
  eventReports,   \* Event.eventReports: the report slots whose `uploaded` is true
  reportsStatus,  \* Event.reportsStatus
  reportReqs,     \* the report upload and delete requests in flight
  availReqs,      \* the availability requests in flight, between findOne and save
  statusReqs,     \* the per-allocation status requests in flight, between findById and save
  socketRooms,    \* socket.io: the rooms each connection has joined
  connectedUsers, \* server.ts connectedUsers: the Map's entries [userId, socketId], in insertion order
  notificationReads  \* the NotificationRead collection

vars ==
  <<event, notifications, statusNotifications, locationAvailabilities,
    resp, served, now, sweep,
    edit, activityLogs, resourceAvailabilities, listing, cleanup,
    attachments, uploads, eventReports, reportsStatus, reportReqs,
    availReqs, statusReqs, socketRooms, connectedUsers, notificationReads>>

\* The state the workflow handlers of the Event never touch.
ext ==
  <<attachments, uploads, eventReports, reportsStatus, reportReqs,
    availReqs, statusReqs, socketRooms, connectedUsers, notificationReads>>


\* The state only the owner's edits, the listings and the cleanup touch.
aux == <<edit, activityLogs, resourceAvailabilities, listing, cleanup, ext>>

\* The collections other than the Event.
others == <<notifications, statusNotifications, locationAvailabilities>>

\* ------------------------------------------- the departmentRequirements map
\* A JavaScript object keeps its string keys in insertion order, so the map
\* is a sequence of entries [dept, reqs]; reqs is the allocation list.

Keys(dr) == {dr[i].dept : i \in DOMAIN dr}

KeyIdx(dr, d) ==
  IF d \in Keys(dr) THEN CHOOSE i \in DOMAIN dr : dr[i].dept = d ELSE 0

\* dr[d], the empty sequence when the key is missing.
ReqsOf(dr, d) == IF KeyIdx(dr, d) = 0 THEN <<>> ELSE dr[KeyIdx(dr, d)].reqs

\* requirements.find(r => r.id === requirementId): index of the first match, 0 if none.
FindReq(reqs, rid) ==
  IF \E j \in DOMAIN reqs : reqs[j].id = rid
  THEN CHOOSE j \in DOMAIN reqs :
         reqs[j].id = rid /\ \A k \in 1..(j - 1) : reqs[k].id # rid
  ELSE 0

\* The loop over Object.entries(event.departmentRequirements) that stops at
\* the first department whose list holds the requirement id: its index, 0 if none.
FindEntry(dr, rid) ==
  IF \E i \in DOMAIN dr : FindReq(dr[i].reqs, rid) # 0
  THEN CHOOSE i \in DOMAIN dr :
         FindReq(dr[i].reqs, rid) # 0
         /\ \A k \in 1..(i - 1) : FindReq(dr[k].reqs, rid) = 0
  ELSE 0

\* requirements.filter(r => r.id !== requirementId)
RECURSIVE FilterOut(_, _)
FilterOut(reqs, rid) ==
  IF reqs = <<>> THEN <<>>
  ELSE IF Head(reqs).id = rid THEN FilterOut(Tail(reqs), rid)
  ELSE <<Head(reqs)>> \o FilterOut(Tail(reqs), rid)

\* delete event.departmentRequirements[dept]
DeleteEntry(dr, i) == SubSeq(dr, 1, i - 1) \o SubSeq(dr, i + 1, Len(dr))

\* if (!dr[d]) dr[d] = [];  dr[d].push(req)
PushReq(dr, d, req) ==
  IF KeyIdx(dr, d) = 0
  THEN Append(dr, [dept |-> d, reqs |-> <<req>>])
  ELSE [dr EXCEPT ![KeyIdx(dr, d)].reqs = Append(@, req)]

\* if (!dr[d]) dr[d] = [];
EnsureKey(dr, d) ==
  IF KeyIdx(dr, d) = 0 THEN Append(dr, [dept |-> d, reqs |-> <<>>]) ELSE dr

RECURSIVE SumLens(_)
SumLens(dr) == IF dr = <<>> THEN 0 ELSE Len(Head(dr).reqs) + SumLens(Tail(dr))

\* Every allocation of the map, in key order.
RECURSIVE AllReqs(_)
AllReqs(dr) == IF dr = <<>> THEN <<>> ELSE Head(dr).reqs \o AllReqs(Tail(dr))

\* ------------------------------------------------------------ the Event
NoEvent ==
  [exists |-> FALSE, status |-> None, reason |-> None, createdBy |-> None,
   details |-> None,
   taggedDepartments |-> {}, departmentRequirements |-> <<>>,
   location |-> None, startDate |-> 0,
   endDate |-> 0, endTime |-> 0, dateTimeSlots |-> <<>>]

\* An absent (undefined) quantity.
NoQuantity == -1
\* The totalQuantity the submission form stores with an allocation.
StoredQuantity == 5

\* An allocation as the submission form sends it.
FormReq(id, name) ==
  [id |-> id, name |-> name, status |-> "pending", requirementsStatus |-> "on-hold",
   declineReason |-> None, notes |-> "note", departmentNotes |-> None,
   lastUpdated |-> <<>>, totalQuantity |-> StoredQuantity]

\* The taggedDepartments / departmentRequirements pairs a submission carries.
FormRequirements ==
  { <<>>,
    << [dept |-> "A", reqs |-> <<FormReq(1, "n1")>>] >>,
    << [dept |-> "A", reqs |-> <<FormReq(1, "n1"), FormReq(2, "n2")>>] >>,
    << [dept |-> "A", reqs |-> <<FormReq(1, "n1")>>],
       [dept |-> "B", reqs |-> <<FormReq(2, "n2")>>] >> }

\* A request is served: res.status(code).json(...).
Respond(op, code) ==
  /\ served' = served + 1
  /\ resp' = [op |-> op, code |-> code]

\* The sweep between two runs.
SweepIdle == [pc |-> "idle", now |-> 0, events |-> <<>>]

\* No PATCH /:id/details request is in flight.
EditIdle == [pc |-> "idle", userId |-> None, details |-> None]

\* The requests of one kind that overlap: two at a time.
RequestSlots == 1..2

\* No request is in flight in the slot.
RequestIdle == [pc |-> "idle"]

\* The socket.io connections: socket.id.
Sockets == {"s1", "s2"}

\* No listing was served yet.
NoListing == <<>>

\* No cleanup has run yet.
NoCleanup == [ran |-> FALSE, locationDeleted |-> 0, resourceDeleted |-> 0, totalDeleted |-> 0]

Init ==
  /\ event = NoEvent
  /\ notifications = {}
  /\ statusNotifications = <<>>
  /\ locationAvailabilities = {}
  /\ resp = [op |-> "none", code |-> 0]
  /\ served = 0
  /\ now = 0
  /\ sweep = SweepIdle
  /\ edit = EditIdle
  /\ activityLogs = <<>>
  /\ resourceAvailabilities = {}
  /\ listing = NoListing
  /\ cleanup = NoCleanup
  /\ attachments = <<>>
  /\ uploads = [s \in RequestSlots |-> RequestIdle]
  /\ eventReports = {}
  /\ reportsStatus = "pending"
  /\ reportReqs = [s \in RequestSlots |-> RequestIdle]
  /\ availReqs = [s \in RequestSlots |-> RequestIdle]
  /\ statusReqs = [s \in RequestSlots |-> RequestIdle]
  /\ socketRooms = [c \in Sockets |-> {}]
  /\ connectedUsers = <<>>
  /\ notificationReads = {}

\* POST /api/events, lines 1213-1217.
predefinedLocations ==
  {"Atrium", "AVR", "Canteen", "Covered Court", "Function Hall", "Gymnasium",
   "Lobby", "Open Court", "Oval", "Parking Area", "Quadrangle", "Rooftop"}

AutoCreateLocation_skips(las, location, date) == las

\* POST /api/events, lines 1221-1251: a custom location gets an availability
\* record for the Event's start date unless one exists.
AutoCreateLocation(las, location, date) ==
  IF location \notin predefinedLocations
       /\ ~\E la \in las : la.date = date /\ la.locationName = location
  THEN las \cup {[date |-> date, locationName |-> location,
                  capacity |-> 1, status |-> "available"]}
  ELSE las

\* eventTitle, requestor, participants and contact fields of a submission.
FormDetails == "d0"

\* POST /api/events, lines 1179-1207: the document of a new Event.
NewEvent(u, form, schedule, location) ==
  [exists |-> TRUE, status |-> "submitted", reason |-> None,
   createdBy |-> u.id,
   details |-> FormDetails,
   taggedDepartments |-> Keys(form),
   departmentRequirements |-> form,
   location |-> location, startDate |-> schedule.startDate,
   endDate |-> schedule.endDate, endTime |-> schedule.endTime,
   dateTimeSlots |-> schedule.dateTimeSlots]

\* POST /api/events; `missing` says a required field of the form is missing.
\* The model holds one Event: a submission is served while there is none.
CreateEvent(u, form, schedule, location, missing) ==
  /\ served < MaxRequests
  /\ ~event.exists
  /\ UNCHANGED <<notifications, statusNotifications, now,sweep, aux>>
  /\ IF missing
     THEN Respond("create", 400) /\ UNCHANGED <<event, locationAvailabilities>>
     ELSE /\ event' = NewEvent(u, form, schedule, location)
          /\ locationAvailabilities' =
               AutoCreateLocation(locationAvailabilities, location, schedule.startDate)
          /\ Respond("create", 201)

\* `x` is truthy in JavaScript (a non-empty string).
Truthy(x) == x # None /\ x # ""

IsTagged_skipped(e, department) == TRUE

\* event.taggedDepartments.includes(userDepartment)
IsTagged(e, department) == department \in e.taggedDepartments

\* PATCH notes, lines 76-85: the first allocation with the id gets the note.
SetNotes(dr, rid, note) ==
  LET i == FindEntry(dr, rid)
      j == FindReq(dr[i].reqs, rid)
  IN [dr EXCEPT ![i].reqs[j] = [@ EXCEPT !.departmentNotes = note, !.lastUpdated = <<now>>]]

\* PATCH /:eventId/requirements/:requirementId/notes
UpdateNotes(u, rid, note) ==
  /\ served < MaxRequests
  /\ UNCHANGED <<others, now, sweep, aux>>
  /\ IF ~event.exists
     THEN Respond("notes", 404) /\ UNCHANGED event
     ELSE IF ~IsTagged(event, u.department)
     THEN Respond("notes", 403) /\ UNCHANGED event
     ELSE IF FindEntry(event.departmentRequirements, rid) = 0
     THEN Respond("notes", 404) /\ UNCHANGED event
     ELSE /\ event' = [event EXCEPT !.departmentRequirements = SetNotes(@, rid, note)]
          /\ Respond("notes", 200)

\* PATCH status, lines 153-171: the first allocation with the id gets the
\* status, and the decline reason when the status is declined and one is given.
SetStatus(dr, rid, status, declineReason) ==
  LET i == FindEntry(dr, rid)
      j == FindReq(dr[i].reqs, rid)
  IN [dr EXCEPT ![i].reqs[j] =
        [@ EXCEPT !.status = status,
                  !.lastUpdated = <<now>>,
                  !.declineReason =
                     IF status = "declined" /\ Truthy(declineReason)
                     THEN declineReason ELSE @]]

\* PATCH status, line 156: requirement.status || 'pending'
OldStatus(dr, rid) ==
  LET i == FindEntry(dr, rid)
      st == dr[i].reqs[FindReq(dr[i].reqs, rid)].status
  IN IF Truthy(st) THEN st ELSE "pending"

\* The _id of the Event of the model.
EventId == "e1"

\* PATCH status, lines 225-238: the Notification document; its id is
\* status-<event>-<requirement>-<Date.now()>.
StatusNotificationDoc(e, rid) ==
  [eventId |-> EventId, requirementId |-> rid, at |-> now, userId |-> e.createdBy]

\* notification.save() throws on a failure of the store and on a duplicate id.
NotificationSaved(doc, storeOk) == storeOk /\ doc \notin notifications

StatusChanged_always(oldStatus, status) == TRUE

\* PATCH status, line 187: if (oldStatus !== status)
StatusChanged(oldStatus, status) == oldStatus # status

NotifyOutcomeCode_surfaces(persisted) == IF persisted THEN 200 ELSE 500

\* PATCH status, lines 258-274: an error of the notification saves is caught
\* and logged, and the response is the success response either way.
NotifyOutcomeCode(persisted) == 200

\* PATCH /:eventId/requirements/:requirementId/status; `saves` is the number
\* of notification saves (at most two) the store lets succeed.
UpdateStatus(u, rid, status, declineReason, saves) ==
  /\ served < MaxRequests
  /\ UNCHANGED <<locationAvailabilities, now, sweep, aux>>
  /\ IF ~event.exists
     THEN Respond("reqstatus", 404) /\ UNCHANGED <<event, notifications, statusNotifications>>
     ELSE IF ~IsTagged(event, u.department)
     THEN Respond("reqstatus", 403) /\ UNCHANGED <<event, notifications, statusNotifications>>
     ELSE IF FindEntry(event.departmentRequirements, rid) = 0
     THEN Respond("reqstatus", 404) /\ UNCHANGED <<event, notifications, statusNotifications>>
     ELSE LET oldStatus == OldStatus(event.departmentRequirements, rid)
              doc == StatusNotificationDoc(event, rid)
              first == StatusChanged(oldStatus, status)
                         /\ NotificationSaved(doc, saves >= 1)
              second == first /\ saves >= 2
          IN /\ event' = [event EXCEPT
                            !.departmentRequirements = SetStatus(@, rid, status, declineReason)]
             /\ notifications' = IF first THEN notifications \cup {doc} ELSE notifications
             /\ statusNotifications' =
                  IF second
                  THEN Append(statusNotifications,
                              [requirementId |-> rid, oldStatus |-> oldStatus,
                               newStatus |-> status])
                  ELSE statusNotifications
             /\ Respond("reqstatus",
                        NotifyOutcomeCode(~StatusChanged(oldStatus, status) \/ second))

\* Re-tag, lines 313-325: the allocation leaves the first list holding its id,
\* and a list left empty is deleted.
RemoveFromOld(dr, rid) ==
  LET i == FindEntry(dr, rid)
      rest == FilterOut(dr[i].reqs, rid)
  IN IF rest = <<>> THEN DeleteEntry(dr, i) ELSE [dr EXCEPT ![i].reqs = rest]

\* Re-tag, lines 335-340: the allocation is pushed to each target in turn.
RECURSIVE PushToAll(_, _, _)
PushToAll(dr, departments, req) ==
  IF departments = <<>> THEN dr
  ELSE PushToAll(PushReq(dr, Head(departments), req), Tail(departments), req)

RetagTagged_keepsOld(dr) == Keys(dr) \cup event.taggedDepartments

\* Re-tag, lines 343-344: Object.keys(event.departmentRequirements).
RetagTagged(dr) == Keys(dr)

\* PATCH /:eventId/requirements/:requirementId/departments
\* (any authenticated caller: the handler does not read req.user)
Retag(rid, departments) ==
  /\ served < MaxRequests
  /\ UNCHANGED <<others, now, sweep, aux>>
  /\ IF departments = <<>>
     THEN Respond("retag", 400) /\ UNCHANGED event
     ELSE IF ~event.exists
     THEN Respond("retag", 404) /\ UNCHANGED event
     ELSE IF FindEntry(event.departmentRequirements, rid) = 0
     THEN Respond("retag", 404) /\ UNCHANGED event
     ELSE LET dr == event.departmentRequirements
              i == FindEntry(dr, rid)
              requirement == dr[i].reqs[FindReq(dr[i].reqs, rid)]
              moved == PushToAll(RemoveFromOld(dr, rid), departments, requirement)
          IN /\ SumLens(moved) <= MaxAllocs
             /\ event' = [event EXCEPT !.departmentRequirements = moved,
                                       !.taggedDepartments = RetagTagged(moved)]
             /\ Respond("retag", 200)

\* Add-department, lines 413-424: the allocation built from a request entry.
NewAllocation(newReq) ==
  [id |-> newReq.id, name |-> newReq.name, status |-> "pending",
   requirementsStatus |-> None, declineReason |-> None,
   notes |-> IF Truthy(newReq.notes) THEN newReq.notes ELSE "",
   departmentNotes |-> None, lastUpdated |-> <<>>,
   totalQuantity |-> NoQuantity]

\* Add-department, lines 405-430: selected entries whose name is not yet in
\* the list are appended.
RECURSIVE AddSelected(_, _)
AddSelected(reqs, requirements) ==
  IF requirements = <<>> THEN reqs
  ELSE LET newReq == Head(requirements)
           skip == ~newReq.selected \/ \E j \in DOMAIN reqs : reqs[j].name = newReq.name
       IN AddSelected(IF skip THEN reqs ELSE Append(reqs, NewAllocation(newReq)),
                      Tail(requirements))

\* Add-department, lines 400-430 on the map.
AddToMap(dr, departmentName, requirements) ==
  LET withKey == EnsureKey(dr, departmentName)
      i == KeyIdx(withKey, departmentName)
  IN [withKey EXCEPT ![i].reqs = AddSelected(@, requirements)]

\* Add-department, lines 433-435.
AddTagged(tagged, departmentName) == tagged \cup {departmentName}

\* POST /:eventId/add-department
\* (any authenticated caller: the handler does not read req.user)
AddDepartment(departmentName, requirements) ==
  /\ served < MaxRequests
  /\ UNCHANGED <<others, now, sweep, aux>>
  /\ IF requirements = <<>>
     THEN Respond("adddept", 400) /\ UNCHANGED event
     ELSE IF ~event.exists
     THEN Respond("adddept", 404) /\ UNCHANGED event
     ELSE LET added == AddToMap(event.departmentRequirements, departmentName, requirements)
          IN /\ SumLens(added) <= MaxAllocs
             /\ event' = [event EXCEPT
                            !.departmentRequirements = added,
                            !.taggedDepartments = AddTagged(@, departmentName)]
             /\ Respond("adddept", 200)

Release_resets(req) == [req EXCEPT !.requirementsStatus = "released", !.status = "pending"]

\* PATCH /:id/status, lines 506-508.
Release(req) == [req EXCEPT !.requirementsStatus = "released"]

Reset_keepsReason(req) == [req EXCEPT !.status = "pending", !.notes = None]

\* PATCH /:id/status, lines 526-530.
Reset(req) == [req EXCEPT !.status = "pending", !.declineReason = None, !.notes = None]

\* PATCH /:id/status, lines 501-510: every allocation of every list is released.
ReleaseAll(dr) ==
  [i \in DOMAIN dr |->
     [dept |-> dr[i].dept,
      reqs |-> [j \in DOMAIN dr[i].reqs |-> Release(dr[i].reqs[j])]]]

\* PATCH /:id/status, lines 521-532: every allocation of every list is reset.
ResetAll(dr) ==
  [i \in DOMAIN dr |->
     [dept |-> dr[i].dept,
      reqs |-> [j \in DOMAIN dr[i].reqs |-> Reset(dr[i].reqs[j])]]]

\* PATCH /:id/status, lines 478-536: the update object applied to the document.
StatusUpdate(e, status, reason) ==
  [e EXCEPT
     !.status = status,
     !.reason = IF Truthy(reason) /\ status \in {"rejected", "cancelled"} THEN reason ELSE @,
     !.departmentRequirements =
        IF status = "approved" THEN ReleaseAll(@)
        ELSE IF status = "cancelled" THEN ResetAll(@)
        ELSE @]

\* PATCH /:id/status: authenticateToken is its only middleware.
PatchStatusAllowed(u) == TRUE

\* PATCH /api/events/:id/status
PatchStatus(u, status, reason) ==
  /\ served < MaxRequests
  /\ UNCHANGED <<others, now, sweep, aux>>
  /\ IF ~PatchStatusAllowed(u)
     THEN Respond("patchstatus", 403) /\ UNCHANGED event
     ELSE IF status \notin PatchValidStatuses
     THEN Respond("patchstatus", 400) /\ UNCHANGED event
     ELSE IF ~event.exists
     THEN Respond("patchstatus", 404) /\ UNCHANGED event
     ELSE /\ event' = StatusUpdate(event, status, reason)
          /\ Respond("patchstatus", 200)

\* PUT /:id/status, line 1291.
PutStatusAllowed(u) == u.role = PutStatusAdminRole

\* PUT /api/events/:id/status
PutStatus(u, status) ==
  /\ served < MaxRequests
  /\ UNCHANGED <<others, now, sweep, aux>>
  /\ IF ~PutStatusAllowed(u)
     THEN Respond("putstatus", 403) /\ UNCHANGED event
     ELSE IF status \notin validStatuses
     THEN Respond("putstatus", 400) /\ UNCHANGED event
     ELSE IF ~event.exists
     THEN Respond("putstatus", 404) /\ UNCHANGED event
     ELSE /\ event' = [event EXCEPT !.status = status]
          /\ Respond("putstatus", 200)

\* ------------------------------------------------------- request inputs
TargetLists ==
  {<<>>} \cup {<<d>> : d \in Departments}
         \cup {<<d1, d2>> : d1 \in Departments, d2 \in Departments}

NewReqs ==
  [id : ReqIds, name : ReqNames, selected : BOOLEAN, notes : {None}]

RequirementLists ==
  {<<>>} \cup {<<r>> : r \in NewReqs}
         \cup { << [id |-> 1, name |-> "n1", selected |-> TRUE, notes |-> None],
                   [id |-> 2, name |-> "n1", selected |-> TRUE, notes |-> None] >> }

StatusInputs == {"confirmed", "declined"}
ReasonInputs == {None, "why"}
\* endDate, endTime and the extra slots of a submission.
Slots == [endDate : 0..MaxDay, endTime : 0..(TicksPerDay - 1)]
\* Single-day schedules: the Event starts on the day it ends.
Schedules ==
  {[startDate |-> sl.endDate, endDate |-> sl.endDate, endTime |-> sl.endTime,
    dateTimeSlots |-> slots] :
      sl \in Slots, slots \in {<<>>} \cup {<<x>> : x \in Slots}}
FixedSchedule == [startDate |-> 0, endDate |-> 0, endTime |-> 0, dateTimeSlots |-> <<>>]
FixedLocation == "Atrium"
\* How many of the two notification saves of a status update the store lets
\* succeed; both when the store is up.
SaveOutcomes == 0..2
StoreUp == 2

EventStatusInputs == PatchValidStatuses \cup {"completed"}

Next ==
  \/ \E u \in Requestors, form \in FormRequirements, missing \in BOOLEAN :
       CreateEvent(u, form, FixedSchedule, FixedLocation, missing)
  \/ \E u \in Users, rid \in ReqIds : UpdateNotes(u, rid, "dn")
  \/ \E u \in Users, rid \in ReqIds, st \in StatusInputs, dr \in ReasonInputs :
       UpdateStatus(u, rid, st, dr, StoreUp)
  \/ \E rid \in ReqIds, ds \in TargetLists : Retag(rid, ds)
  \/ \E d \in Departments, rs \in RequirementLists : AddDepartment(d, rs)
  \/ \E u \in Users, st \in EventStatusInputs, r \in ReasonInputs : PatchStatus(u, st, r)
  \/ \E u \in Users, st \in EventStatusInputs : PutStatus(u, st)

Spec == Init /\ [][Next]_vars
\* ================================================================ claims
\* The allocations of a map with their places: <<department, position, allocation>>.
Placed(dr) ==
  {<<dr[i].dept, j, dr[i].reqs[j]>> : <<i, j>> \in
     {<<i, j>> \in (DOMAIN dr) \X (1..MaxAllocs + 1) : j \in DOMAIN dr[i].reqs}}

\* The departments whose allocation list is non-empty.
NonEmptyDepartments(dr) == {dr[i].dept : i \in {k \in DOMAIN dr : dr[k].reqs # <<>>}}

\* The last request was served by handler `op` with a success status.
Served(op) == resp.op = op /\ resp.code = 200

\* This step serves a request of handler `op`.
Serves(op) == served' = served + 1 /\ resp'.op = op

\* C1: after a successful add-department, re-tag, approve or cancel,
\* taggedDepartments is exactly the set of departments whose allocation list
\* is non-empty.
C1_TaggedIsNonEmptyKeys ==
  (event.exists /\ resp.code = 200 /\ resp.op \in {"adddept", "retag", "patchstatus"})
    => event.taggedDepartments = NonEmptyDepartments(event.departmentRequirements)

\* C2: approving an Event sets requirementsStatus = released on every
\* allocation of every department and leaves every allocation's status, and
\* the shape of the map, as they were.
C2_ApproveReleasesKeepsStatus ==
  [][Serves("patchstatus") => \A u \in Users, r \in ReasonInputs :
       (event.exists /\ PatchStatus(u, "approved", r))
         => LET old == event.departmentRequirements
                new == event'.departmentRequirements
            IN /\ event'.status = "approved"
               /\ DOMAIN new = DOMAIN old
               /\ \A i \in DOMAIN old :
                    /\ new[i].dept = old[i].dept
                    /\ DOMAIN new[i].reqs = DOMAIN old[i].reqs
                    /\ \A j \in DOMAIN old[i].reqs :
                         /\ new[i].reqs[j].requirementsStatus = "released"
                         /\ new[i].reqs[j].status = old[i].reqs[j].status]_vars

\* C2 witness: an approved Event holding an allocation a department had
\* already given a status other than pending.
C2_Witness ==
  /\ Served("patchstatus") /\ event.status = "approved"
  /\ \E p \in Placed(event.departmentRequirements) :
       p[3].status = "confirmed" /\ p[3].requirementsStatus = "released"

\* C3: a per-allocation status or notes request leaves every allocation that
\* is not released as it was.
C3_UnreleasedIsInert ==
  [][(Serves("reqstatus") \/ Serves("notes"))
       => \A p \in Placed(event.departmentRequirements) :
            p[3].requirementsStatus # "released"
              => p \in Placed(event'.departmentRequirements)]_vars

\* C4: a request to PATCH /:id/status for approved, rejected or cancelled by
\* a caller who is not an administrator is refused and changes nothing.
C4_StatusChangeAdminOnly ==
  [][Serves("patchstatus") =>
     \A u \in Users, st \in {"approved", "rejected", "cancelled"}, r \in ReasonInputs :
       (event.exists /\ u.role # requireAdminRole /\ PatchStatus(u, st, r))
         => (resp'.code = 403 /\ event' = event)]_vars

\* C5: cancelling an Event with a reason leaves it cancelled with that reason
\* stored and every allocation pending, with no declineReason and no notes.
C5_CancelResets ==
  [][Serves("patchstatus") => \A u \in Users, r \in ReasonInputs :
       (event.exists /\ Truthy(r) /\ PatchStatus(u, "cancelled", r))
         => /\ event'.status = "cancelled"
            /\ event'.reason = r
            /\ Len(AllReqs(event'.departmentRequirements))
                 = Len(AllReqs(event.departmentRequirements))
            /\ \A p \in Placed(event'.departmentRequirements) :
                 /\ p[3].status = "pending"
                 /\ p[3].declineReason = None
                 /\ p[3].notes = None]_vars

\* C5 witness: a cancelled Event with its reason, holding an allocation a
\* department had updated before the cancellation.
C5_Witness ==
  /\ Served("patchstatus") /\ event.status = "cancelled" /\ event.reason = "why"
  /\ \E p \in Placed(event.departmentRequirements) :
       p[3].lastUpdated # <<>> /\ p[3].departmentNotes = None /\ p[3].status = "pending"

\* C6: once an Event is rejected, cancelled or completed, no request to
\* PATCH /:id/status or PUT /:id/status gives it a different status.
C6_FinalStatusesAreTerminal ==
  [][((Serves("patchstatus") \/ Serves("putstatus"))
        /\ event.exists /\ event.status \in {"rejected", "cancelled", "completed"})
       => event'.status = event.status]_vars

\* The departments of a target list are distinct.
Distinct(ds) == \A i, j \in DOMAIN ds : i # j => ds[i] # ds[j]

Range(ds) == {ds[i] : i \in DOMAIN ds}

\* C7: a re-tag of the allocation found in department A's list to distinct
\* target departments other than A removes it from A's list, appends one copy
\* of it to each target's list and leaves every other allocation in place; when
\* A's list is left empty the list is deleted and A is no longer tagged.
C7_RetagMoves ==
  [][Serves("retag") => \A rid \in ReqIds, ds \in TargetLists :
       LET old == event.departmentRequirements
           new == event'.departmentRequirements
           i == FindEntry(old, rid)
           A == old[i].dept
           it == old[i].reqs[FindReq(old[i].reqs, rid)]
           rest == SelectSeq(old[i].reqs, LAMBDA q : q.id # rid)
       IN (event.exists /\ i # 0 /\ ds # <<>> /\ Distinct(ds)
             /\ A \notin Range(ds) /\ Retag(rid, ds))
            => /\ resp'.code = 200
               /\ ReqsOf(new, A) = rest
               /\ \A d \in Range(ds) : ReqsOf(new, d) = Append(ReqsOf(old, d), it)
               /\ \A d \in Departments \ (Range(ds) \cup {A}) :
                    /\ ReqsOf(new, d) = ReqsOf(old, d)
                    /\ d \in Keys(new) <=> d \in Keys(old)
               /\ rest = <<>> => (A \notin Keys(new) /\ A \notin event'.taggedDepartments)
               /\ Range(ds) \subseteq event'.taggedDepartments]_vars

\* C7 witness: allocation 1 was moved out of A, A's list is gone and A is
\* untagged, and B and C each hold a copy.
C7_Witness ==
  /\ Served("retag")
  /\ "A" \notin Keys(event.departmentRequirements)
  /\ "A" \notin event.taggedDepartments
  /\ FindReq(ReqsOf(event.departmentRequirements, "B"), 1) # 0
  /\ FindReq(ReqsOf(event.departmentRequirements, "C"), 1) # 0

\* C8: a per-allocation status update by a caller whose department is not
\* in taggedDepartments is refused with 403 and changes no allocation, and an
\* update that is applied comes from a tagged department.
C8_StatusUpdateNeedsTag ==
  [][Serves("reqstatus") =>
     \A u \in Users, rid \in ReqIds, st \in StatusInputs, dr \in ReasonInputs :
       (event.exists /\ UpdateStatus(u, rid, st, dr, StoreUp))
         => /\ u.department \notin event.taggedDepartments
                 => (resp'.code = 403 /\ event' = event
                       /\ notifications' = notifications)
            /\ resp'.code = 200 => u.department \in event.taggedDepartments]_vars

\* C8 witness: a status update was refused with 403 on an Event that holds
\* allocations.
C8_Witness ==
  /\ resp.op = "reqstatus" /\ resp.code = 403
  /\ event.exists /\ event.departmentRequirements # <<>>

\* ------------------------------------------------- the auto-complete sweep
\* autoCompleteEvents, lines 293-298: endDate with its time of day set to endTime.
eventEndDateTime(e) == e.endDate * TicksPerDay + e.endTime

\* autoCompleteEvents, line 301.
HasEnded(e, at) == eventEndDateTime(e) <= at

\* autoCompleteEvents, lines 283-285: the query filter.
SweepFilter(e) == e.exists /\ e.status \notin {"completed", "cancelled"}

\* The fields of a document returned by the query that the loop reads.
Loaded(e) == [endDate |-> e.endDate, endTime |-> e.endTime]

\* autoCompleteEvents, line 280: const now = new Date()
SweepStart ==
  /\ sweep.pc = "idle"
  /\ sweep' = [pc |-> "find", now |-> now, events |-> <<>>]
  /\ UNCHANGED <<event, others, resp, served, now, aux>>

\* autoCompleteEvents, lines 283-285: await Event.find(...)
SweepFind ==
  /\ sweep.pc = "find"
  /\ sweep' = [sweep EXCEPT !.pc = "loop",
                            !.events = IF SweepFilter(event) THEN <<Loaded(event)>> ELSE <<>>]
  /\ UNCHANGED <<event, others, resp, served, now, aux>>

\* autoCompleteEvents, lines 289-329: one iteration of the loop; event.save()
\* writes the status path of the document loaded by the query.
SweepSave ==
  /\ sweep.pc = "loop"
  /\ IF sweep.events # <<>> /\ HasEnded(Head(sweep.events), sweep.now) /\ event.exists
     THEN event' = [event EXCEPT !.status = "completed"]
     ELSE UNCHANGED event
  /\ sweep' = SweepIdle
  /\ UNCHANGED <<others, resp, served, now, aux>>

\* Time passes.
Tick ==
  /\ now < MaxTime
  /\ now' = now + 1
  /\ UNCHANGED <<event, others, resp, served, sweep, aux>>

\* The submissions of the sweep specification: with and without an allocation.
SweepForms == {f \in FormRequirements : SumLens(f) <= 1}

NextSweep ==
  \/ \E u \in Requestors, form \in SweepForms, sch \in Schedules :
       CreateEvent(u, form, sch, FixedLocation, FALSE)
  \/ \E u \in Users, st \in EventStatusInputs, r \in ReasonInputs : PatchStatus(u, st, r)
  \/ \E u \in Users, st \in EventStatusInputs : PutStatus(u, st)
  \/ SweepStart
  \/ SweepFind
  \/ SweepSave
  \/ Tick

SpecSweep == Init /\ [][NextSweep]_vars
\* ------------------------------------------------------ claims on the sweep
\* This step is a step of the sweep.
SweepStep == sweep' # sweep

\* The end of an Event as its requestor scheduled it: the end of the last
\* slot of a multi-slot Event, endDate/endTime otherwise.
EffectiveEnd(e) ==
  IF e.dateTimeSlots # <<>>
  THEN LET last == e.dateTimeSlots[Len(e.dateTimeSlots)]
       IN last.endDate * TicksPerDay + last.endTime
  ELSE e.endDate * TicksPerDay + e.endTime

\* C9: no step of the sweep changes the status of an Event that is
\* completed or cancelled.
C9_SweepKeepsCompletedAndCancelled ==
  [][(SweepStep /\ event.exists /\ event.status \in {"completed", "cancelled"})
       => event'.status = event.status]_vars

\* C10: the sweep sets an Event it found, and that is still not completed or
\* cancelled, to completed exactly when the Event's effective end is strictly
\* before the sweep's `now`.
C10_SweepCompletesExactlyThePast ==
  [][(sweep.pc = "loop" /\ sweep'.pc = "idle" /\ sweep.events # <<>> /\ SweepFilter(event))
       => (event'.status = "completed" <=> EffectiveEnd(event) < sweep.now)]_vars

\* ------------------------------------------------- the owner's requests
\* The values of the id comparisons: an ObjectId, or a string.
ObjectId(hex) == [type |-> "ObjectId", hex |-> hex]

\* ObjectId.prototype.toString(): the hex string of the id.
toString(v) == [type |-> "string", hex |-> v.hex]

\* a !== b: two strings are equal by value, an object is equal to itself only,
\* and no handler compares an ObjectId with itself.
StrictNotEqual(a, b) == ~(a.type = "string" /\ b.type = "string" /\ a.hex = b.hex)

\* req.user._id
UserId(u) == ObjectId(u.id)

\* event.createdBy
CreatedBy(e) == ObjectId(e.createdBy)

\* PATCH /:id/details, line 658, and PUT /:id, line 1429.
IsOwner(e, u) == ~StrictNotEqual(toString(CreatedBy(e)), toString(UserId(u)))

\* PATCH /:id/details, lines 647-686: the request reads the Event and checks
\* it; `form.valid` says the required fields are present and participants >= 1.
EditRead(u, form) ==
  /\ served < MaxRequests
  /\ edit.pc = "idle"
  /\ UNCHANGED <<event, others, now, sweep,
                 activityLogs, resourceAvailabilities, listing, cleanup, ext>>
  /\ IF ~event.exists
     THEN Respond("details", 404) /\ UNCHANGED edit
     ELSE IF ~IsOwner(event, u)
     THEN Respond("details", 403) /\ UNCHANGED edit
     ELSE IF event.status # "submitted"
     THEN Respond("details", 400) /\ UNCHANGED edit
     ELSE IF ~form.valid
     THEN Respond("details", 400) /\ UNCHANGED edit
     ELSE /\ edit' = [pc |-> "write", userId |-> u.id, details |-> form.details]
          /\ served' = served + 1
          /\ UNCHANGED resp

\* PATCH /:id/details, lines 754-776: Event.findByIdAndUpdate(id, updateData)
\* and the response; a document deleted meanwhile makes the handler throw.
EditWrite ==
  /\ edit.pc = "write"
  /\ edit' = EditIdle
  /\ resp' = [op |-> "details", code |-> IF event.exists THEN 200 ELSE 500]
  /\ event' = IF event.exists THEN [event EXCEPT !.details = edit.details] ELSE event
  /\ UNCHANGED <<others, served, now, sweep,
                 activityLogs, resourceAvailabilities, listing, cleanup, ext>>

\* PUT /:id, lines 1437-1443: a location, date or time of the request differs
\* from the stored one.
isReschedule(e, body) ==
  \/ body.location # None /\ body.location # e.location
  \/ /\ body.dates # <<>>
     /\ \/ body.dates[1].startDate # e.startDate
        \/ body.dates[1].endDate # e.endDate
        \/ body.dates[1].endTime # e.endTime

\* PUT /:id, lines 1446-1466: the fields the request provides are written.
UpdateData(e, body) ==
  LET located == IF body.location # None THEN [e EXCEPT !.location = body.location] ELSE e
      dated == IF body.dates # <<>>
               THEN [located EXCEPT !.startDate = body.dates[1].startDate,
                                    !.endDate = body.dates[1].endDate,
                                    !.endTime = body.dates[1].endTime,
                                    !.dateTimeSlots = body.dates[1].dateTimeSlots]
               ELSE located
  IN IF body.departmentRequirements # <<>>
     THEN [dated EXCEPT !.departmentRequirements = body.departmentRequirements[1]]
     ELSE dated

\* PUT /:id, lines 1551-1573: the activity log entry of a reschedule.
RescheduleLog(e, updated) ==
  [action |-> "reschedule_event",
   oldLocation |-> e.location, newLocation |-> updated.location,
   oldStartDate |-> e.startDate, newStartDate |-> updated.startDate,
   oldEndDate |-> e.endDate, newEndDate |-> updated.endDate]

\* PUT /api/events/:id
UpdateEvent(u, body) ==
  /\ served < MaxRequests
  /\ UNCHANGED <<notifications, statusNotifications, now, sweep,
                 edit, resourceAvailabilities, listing, cleanup, ext>>
  /\ IF ~event.exists
     THEN Respond("update", 404) /\ UNCHANGED <<event, locationAvailabilities, activityLogs>>
     ELSE IF ~IsOwner(event, u)
     THEN Respond("update", 403) /\ UNCHANGED <<event, locationAvailabilities, activityLogs>>
     ELSE LET updatedEvent == UpdateData(event, body)
          IN /\ event' = updatedEvent
             /\ locationAvailabilities' =
                  IF body.location # None
                  THEN AutoCreateLocation(locationAvailabilities, body.location,
                                          updatedEvent.startDate)
                  ELSE locationAvailabilities
             /\ activityLogs' =
                  IF isReschedule(event, body)
                  THEN Append(activityLogs, RescheduleLog(event, updatedEvent))
                  ELSE activityLogs
             /\ Respond("update", 200)

\* The role string DELETE /:id compares req.user.role against.
DeleteAdminRole == "admin"

\* DELETE /:id, line 1351: event.createdBy.toString() !== userId && userRole !== 'admin'
\* with userId = req.user._id.
DeleteRefused(e, u) ==
  StrictNotEqual(toString(CreatedBy(e)), UserId(u)) /\ u.role # DeleteAdminRole

\* DELETE /api/events/:id
DeleteEvent(u) ==
  /\ served < MaxRequests
  /\ UNCHANGED <<others, now, sweep, aux>>
  /\ IF ~event.exists
     THEN Respond("delete", 404) /\ UNCHANGED event
     ELSE IF DeleteRefused(event, u)
     THEN Respond("delete", 403) /\ UNCHANGED event
     ELSE event' = NoEvent /\ Respond("delete", 200)

\* The locations of a submission: a predefined one and a custom one.
Locations == {"Atrium", "CustomRoom"}

\* The bodies of a PATCH /:id/details request.
DetailsForms == [details : {"d1"}, valid : BOOLEAN]

\* A departmentRequirements map whose allocation the client marked released.
ReleasedForm ==
  << [dept |-> "A",
      reqs |-> <<[FormReq(1, "n1") EXCEPT !.requirementsStatus = "released"]>>] >>

\* The maps a submission carries in the owner specification.
OwnerForms == SweepForms \cup {ReleasedForm}

\* The schedule a PUT /:id request moves the Event to.
LaterSchedule ==
  [startDate |-> MaxDay, endDate |-> MaxDay, endTime |-> 0, dateTimeSlots |-> <<>>]

\* The bodies of a PUT /:id request; an absent field is the empty sequence
\* (None for the location), a present one a one-element sequence.
UpdateBodies ==
  [location : {None, "CustomRoom"},
   dates : {<<>>, <<LaterSchedule>>},
   departmentRequirements : {<<>>, <<ReleasedForm>>}]

NextOwner ==
  \/ \E u \in Requestors, form \in OwnerForms, loc \in Locations :
       CreateEvent(u, form, FixedSchedule, loc, FALSE)
  \/ \E u \in Users, st \in EventStatusInputs, r \in ReasonInputs : PatchStatus(u, st, r)
  \/ \E u \in Users, form \in DetailsForms : EditRead(u, form)
  \/ EditWrite
  \/ \E u \in Users, body \in UpdateBodies : UpdateEvent(u, body)
  \/ \E u \in Users : DeleteEvent(u)

SpecOwner == Init /\ [][NextOwner]_vars
\* ------------------------------------------- claims on the owner's requests
\* The details of an Event a requestor edits.
EventDetails(e) ==
  <<e.details, e.location, e.startDate, e.endDate, e.endTime, e.dateTimeSlots>>

\* C11: a step that changes the details of an Event is taken while the
\* Event's status is submitted, and a detail edit requested by anyone but the
\* owner changes nothing.
C11_DetailEditOnlyWhileSubmitted ==
  [][/\ (event.exists /\ event'.exists /\ EventDetails(event') # EventDetails(event))
          => event.status = "submitted"
     /\ \A u \in Users :
          (event.exists /\ u.id # event.createdBy
             /\ ((\E form \in DetailsForms : EditRead(u, form))
                   \/ (\E body \in UpdateBodies : UpdateEvent(u, body))))
            => (event' = event /\ edit' = edit /\ resp'.code = 403)]_vars

\* C16: submitting an Event at a location outside the predefined list, with
\* no availability record for that location and the start date, creates the
\* Event with status submitted and adds exactly one record for that location
\* and date, with capacity 1 and status available.
C16_CustomLocationAutoCreated ==
  [][Serves("create") =>
     \A u \in Requestors, form \in OwnerForms, loc \in Locations :
       (/\ loc \notin predefinedLocations
        /\ ~\E la \in locationAvailabilities :
              la.locationName = loc /\ la.date = FixedSchedule.startDate
        /\ CreateEvent(u, form, FixedSchedule, loc, FALSE))
         => /\ resp'.code = 201
            /\ event'.exists /\ event'.status = "submitted" /\ event'.location = loc
            /\ locationAvailabilities' \ locationAvailabilities =
                 {[date |-> event'.startDate, locationName |-> loc,
                   capacity |-> 1, status |-> "available"]}
            /\ locationAvailabilities \subseteq locationAvailabilities']_vars

\* C16 witness: an Event was submitted at the custom location and the
\* availability record of that location and date exists.
C16_Witness ==
  /\ resp.op = "create" /\ resp.code = 201
  /\ event.exists /\ event.location = "CustomRoom"
  /\ \E la \in locationAvailabilities :
       la.locationName = "CustomRoom" /\ la.date = event.startDate /\ la.capacity = 1

\* C19: a delete request removes the Event exactly when it comes from the
\* Event's owner or from a user with the admin role, and a refused request
\* leaves the Event as it was.
C19_DeleteByOwnerOrAdmin ==
  [][Serves("delete") =>
     \A u \in Users :
       (event.exists /\ DeleteEvent(u))
         => /\ (u.id = event.createdBy \/ u.role = requireAdminRole) <=> ~event'.exists
            /\ event'.exists => event' = event]_vars

\* The ids of the allocations of a map that are released.
ReleasedIds(dr) ==
  {p[3].id : p \in {q \in Placed(dr) : q[3].requirementsStatus = "released"}}

\* C20: a step after which an allocation is released that was not released
\* before it is a transition of the Event to approved.
C20_ReleasedOnlyByApproval ==
  [][~(ReleasedIds(event'.departmentRequirements)
         \subseteq ReleasedIds(event.departmentRequirements))
       => (resp'.op = "patchstatus" /\ resp'.code = 200
             /\ event'.status = "approved")]_vars

\* ------------------------------------ status updates and their notifications
\* The statuses of the status updates: StatusInputs and the status a new
\* allocation has.
NotifyStatusInputs == StatusInputs \cup {"pending"}

NextNotify ==
  \/ \E u \in Requestors, form \in SweepForms :
       CreateEvent(u, form, FixedSchedule, FixedLocation, FALSE)
  \/ \E u \in Users : PatchStatus(u, "approved", None)
  \/ \E u \in Users, rid \in ReqIds, st \in NotifyStatusInputs, dr \in ReasonInputs,
          saves \in SaveOutcomes :
       UpdateStatus(u, rid, st, dr, saves)
  \/ Tick

SpecNotify == Init /\ [][NextNotify]_vars

\* The allocation a per-allocation request with id `rid` acts on.
Target(dr, rid) == dr[FindEntry(dr, rid)].reqs[FindReq(dr[FindEntry(dr, rid)].reqs, rid)]

\* C12: on an approved Event, a status update by a tagged department that
\* changes an allocation's status, when the store is up and holds no
\* Notification of that requirement for the same millisecond, persists exactly
\* one Notification, addressed to the Event's creator and naming the Event and
\* the requirement; an update to the status the allocation already has
\* persists none.
C12_OneNotificationPerChange ==
  [][Serves("reqstatus") =>
     \A u \in Users, rid \in ReqIds, st \in NotifyStatusInputs, dr \in ReasonInputs :
       (/\ event.exists /\ event.status = "approved"
        /\ UpdateStatus(u, rid, st, dr, StoreUp)
        /\ resp'.code = 200)
         => LET old == OldStatus(event.departmentRequirements, rid)
                doc == [eventId |-> EventId, requirementId |-> rid, at |-> now,
                        userId |-> event.createdBy]
            IN /\ notifications \subseteq notifications'
               /\ (old # st /\ doc \notin notifications)
                    => notifications' \ notifications = {doc}
               /\ old = st => notifications' = notifications]_vars

\* C12 witness: submit, approve, one status change: one Notification.
C12_Witness ==
  /\ Served("reqstatus") /\ event.status = "approved" /\ served = 3
  /\ Cardinality(notifications) = 1
  /\ \E n \in notifications :
       /\ n.userId = event.createdBy
       /\ Target(event.departmentRequirements, n.requirementId).status = "confirmed"

\* C13: a status update whose Notification is not persisted, because the
\* store fails or rejects the Notification's id, is still answered with
\* success and leaves the allocation with the new status.
C13_NotificationFailureIsSoft ==
  [][Serves("reqstatus") =>
     \A u \in Users, rid \in ReqIds, st \in NotifyStatusInputs, dr \in ReasonInputs,
        saves \in SaveOutcomes :
       (/\ event.exists
        /\ IsTagged(event, u.department)
        /\ FindEntry(event.departmentRequirements, rid) # 0
        /\ OldStatus(event.departmentRequirements, rid) # st
        /\ ~NotificationSaved(StatusNotificationDoc(event, rid), saves >= 1)
        /\ UpdateStatus(u, rid, st, dr, saves))
         => /\ resp'.code = 200
            /\ Target(event'.departmentRequirements, rid).status = st
            /\ notifications' = notifications]_vars

\* C13 witness: an allocation was confirmed and answered with success while
\* no Notification could be persisted.
C13_Witness ==
  /\ Served("reqstatus") /\ notifications = {} /\ statusNotifications = <<>>
  /\ \E p \in Placed(event.departmentRequirements) : p[3].status = "confirmed"

\* C14: a status update to declined that supplies no reason leaves the
\* allocation declined with no declineReason.
C14_DeclineWithoutReasonUnset ==
  [][Serves("reqstatus") =>
     \A u \in Users, rid \in ReqIds :
       (/\ event.exists
        /\ UpdateStatus(u, rid, "declined", None, StoreUp)
        /\ resp'.code = 200)
         => /\ Target(event'.departmentRequirements, rid).status = "declined"
            /\ Target(event'.departmentRequirements, rid).declineReason = None]_vars

\* ------------------------------------- availability, listings and cleanup
\* The Department collection: each department's requirement catalog. A has
\* an entry with a default quantity, B one without, C is not in the collection.
DepartmentCatalog ==
  << [name |-> "A", requirements |-> <<[text |-> "n1", totalQuantity |-> 3]>>],
     [name |-> "B", requirements |-> <<[text |-> "n2", totalQuantity |-> NoQuantity]>>] >>

\* Department.findOne({ name: deptName }): its position, 0 when there is none.
FindDepartment(deptName) ==
  IF \E i \in DOMAIN DepartmentCatalog : DepartmentCatalog[i].name = deptName
  THEN CHOOSE i \in DOMAIN DepartmentCatalog :
         /\ DepartmentCatalog[i].name = deptName
         /\ \A k \in 1..(i - 1) : DepartmentCatalog[k].name # deptName
  ELSE 0

\* department.requirements.find(r => r.text === req.name): its position, 0 if none.
FindDeptReq(department, name) ==
  IF \E j \in DOMAIN department.requirements : department.requirements[j].text = name
  THEN CHOOSE j \in DOMAIN department.requirements :
         /\ department.requirements[j].text = name
         /\ \A k \in 1..(j - 1) : department.requirements[k].text # name
  ELSE 0

FindAvailability_anyDate(ras, deptName, text, date) ==
  {ra \in ras : ra.departmentName = deptName /\ ra.requirementText = text}

\* ResourceAvailability.findOne({ departmentId, requirementId, date }): the
\* rows of the department's catalog entry for the date (at most one, by the
\* unique index).
FindAvailability(ras, deptName, text, date) ==
  {ra \in ras : ra.departmentName = deptName /\ ra.requirementText = text
                 /\ ra.date = date}

\* A number is truthy: present and not 0.
TruthyNumber(n) == n # NoQuantity /\ n # 0

\* GET /my and GET /tagged, lines 824-858: the quantity shown for an allocation.
RecalculatedQuantity(ras, deptName, req, eventDate) ==
  LET d == FindDepartment(deptName)
  IN IF d = 0 THEN req.totalQuantity
     ELSE LET r == FindDeptReq(DepartmentCatalog[d], req.name)
          IN IF r = 0 THEN req.totalQuantity
             ELSE LET deptReq == DepartmentCatalog[d].requirements[r]
                      availability == FindAvailability(ras, deptName, req.name, eventDate)
                  IN IF availability # {}
                     THEN (CHOOSE ra \in availability : TRUE).quantity
                     ELSE IF TruthyNumber(deptReq.totalQuantity)
                     THEN deptReq.totalQuantity
                     ELSE req.totalQuantity

\* new Date(event.startDate).toISOString().split('T')[0]: the day of the
\* stored start date.
EventDate(e) == e.startDate

\* GET /my and GET /tagged, lines 812-868: the Event with every allocation's
\* totalQuantity recalculated.
Recalculated(e, ras) ==
  [e EXCEPT !.departmentRequirements =
     [i \in DOMAIN @ |->
        [dept |-> @[i].dept,
         reqs |-> [j \in DOMAIN @[i].reqs |->
                     [@[i].reqs[j] EXCEPT !.totalQuantity =
                        RecalculatedQuantity(ras, e.departmentRequirements[i].dept,
                                             e.departmentRequirements[i].reqs[j],
                                             EventDate(e))]]]]]

\* GET /api/events/my
ListMy(u) ==
  /\ served < MaxRequests
  /\ listing' = IF event.exists /\ event.createdBy = u.id
                THEN <<Recalculated(event, resourceAvailabilities)>> ELSE <<>>
  /\ Respond("my", 200)
  /\ UNCHANGED <<event, others, now, sweep,
                 edit, activityLogs, resourceAvailabilities, cleanup, ext>>

\* GET /api/events/tagged: the approved Events tagging the caller's department.
ListTagged(u) ==
  /\ served < MaxRequests
  /\ UNCHANGED <<event, others, now, sweep,
                 edit, activityLogs, resourceAvailabilities, cleanup, ext>>
  /\ IF ~Truthy(u.department)
     THEN Respond("tagged", 400) /\ UNCHANGED listing
     ELSE /\ listing' = IF event.exists /\ u.department \in event.taggedDepartments
                             /\ event.status = "approved"
                        THEN <<Recalculated(event, resourceAvailabilities)>> ELSE <<>>
          /\ Respond("tagged", 200)

\* POST /availability, lines 89-113: an existing row takes the quantity of
\* the request, a new one takes quantity || 1.
UpsertAvailability(ras, deptName, text, date, quantity) ==
  LET existing == FindAvailability(ras, deptName, text, date)
      key == [departmentName |-> deptName, requirementText |-> text, date |-> date]
  IN IF existing # {}
     THEN (ras \ existing)
            \cup {[ra EXCEPT !.quantity = IF quantity # NoQuantity THEN quantity ELSE @]
                    : ra \in existing}
     ELSE ras \cup {[departmentName |-> deptName, requirementText |-> text,
                     date |-> date,
                     quantity |-> IF TruthyNumber(quantity) THEN quantity ELSE 1]}

\* POST /availability (resource availability of a catalog entry on a date)
SetAvailability(deptName, text, date, quantity) ==
  /\ served < MaxRequests
  /\ resourceAvailabilities' =
       UpsertAvailability(resourceAvailabilities, deptName, text, date, quantity)
  /\ Respond("availability", 200)
  /\ UNCHANGED <<event, others, now, sweep, edit, activityLogs, listing, cleanup, ext>>

\* new Date().toISOString().split('T')[0]: the day of an instant.
TodayStr(at) == at \div TicksPerDay

PastRows_inclusive(rows, todayStr) == {r \in rows : r.date <= todayStr}

\* deleteMany({ date: { $lt: todayStr } }): the rows it deletes.
PastRows(rows, todayStr) == {r \in rows : r.date < todayStr}

\* runCleanupNow over given collections at instant `at`: what is left of
\* them and the counts it returns.
CleanupResult(las, ras, at) ==
  LET locationPast == PastRows(las, TodayStr(at))
      resourcePast == PastRows(ras, TodayStr(at))
  IN [locations |-> las \ locationPast,
      resources |-> ras \ resourcePast,
      locationDeleted |-> Cardinality(locationPast),
      resourceDeleted |-> Cardinality(resourcePast),
      totalDeleted |-> Cardinality(locationPast) + Cardinality(resourcePast)]

\* runCleanupNow, and the cron jobs that call the same two functions.
RunCleanupNow ==
  LET result == CleanupResult(locationAvailabilities, resourceAvailabilities, now)
  IN /\ locationAvailabilities' = result.locations
     /\ resourceAvailabilities' = result.resources
     /\ cleanup' = [ran |-> TRUE,
                    locationDeleted |-> result.locationDeleted,
                    resourceDeleted |-> result.resourceDeleted,
                    totalDeleted |-> result.totalDeleted]
     /\ UNCHANGED <<event, notifications, statusNotifications, resp, served, now,
                    sweep, edit, activityLogs, listing, ext>>

\* A submission per start day.
DaySchedules ==
  {[startDate |-> d, endDate |-> d, endTime |-> 0, dateTimeSlots |-> <<>>] : d \in 0..MaxDay}

\* The catalog entries a POST /availability request names.
CatalogEntries ==
  {<<DepartmentCatalog[i].name, DepartmentCatalog[i].requirements[j].text>> :
     <<i, j>> \in {<<i, j>> \in (DOMAIN DepartmentCatalog) \X (1..1) :
                     j \in DOMAIN DepartmentCatalog[i].requirements}}

\* The quantities a POST /availability request carries.
QuantityInputs == {0, 2}

\* The maps a submission carries: allocations of A and B, and one of C.
AvailForms ==
  { << [dept |-> "A", reqs |-> <<FormReq(1, "n1")>>],
       [dept |-> "B", reqs |-> <<FormReq(2, "n2")>>] >>,
    << [dept |-> "C", reqs |-> <<FormReq(1, "n1")>>] >> }

NextAvail ==
  \/ \E u \in Requestors, form \in AvailForms, sch \in DaySchedules, loc \in Locations :
       CreateEvent(u, form, sch, loc, FALSE)
  \/ \E u \in Users : PatchStatus(u, "approved", None)
  \/ \E entry \in CatalogEntries, date \in 0..MaxDay, quantity \in QuantityInputs :
       SetAvailability(entry[1], entry[2], date, quantity)
  \/ \E u \in Users : ListMy(u)
  \/ \E u \in Users : ListTagged(u)
  \/ RunCleanupNow
  \/ Tick

SpecAvail == Init /\ [][NextAvail]_vars
\* ------------------------------ claims on availability, listings, cleanup
\* The quantities of the date-specific overrides of a department's
\* requirement for a date.
Overrides(ras, dept, name, date) ==
  {ra.quantity : ra \in {x \in ras : x.departmentName = dept
                                       /\ x.requirementText = name /\ x.date = date}}

\* The default quantities of a department's catalog entries for a requirement.
CatalogDefaults(dept, name) ==
  {DepartmentCatalog[i].requirements[j].totalQuantity :
     <<i, j>> \in {<<i, j>> \in (DOMAIN DepartmentCatalog) \X (1..1) :
                     /\ DepartmentCatalog[i].name = dept
                     /\ j \in DOMAIN DepartmentCatalog[i].requirements
                     /\ DepartmentCatalog[i].requirements[j].text = name
                     /\ DepartmentCatalog[i].requirements[j].totalQuantity >= 1}}

C17_CleanupIdempotent ==
  [][RunCleanupNow =>
       LET today == TodayStr(now)
           again == CleanupResult(locationAvailabilities', resourceAvailabilities', now)
       IN /\ locationAvailabilities' = {r \in locationAvailabilities : ~(r.date < today)}
          /\ resourceAvailabilities' = {r \in resourceAvailabilities : ~(r.date < today)}
          /\ cleanup'.totalDeleted =
               Cardinality(locationAvailabilities \ locationAvailabilities')
                 + Cardinality(resourceAvailabilities \ resourceAvailabilities')
          /\ again.totalDeleted = 0
          /\ again.locations = locationAvailabilities'
          /\ again.resources = resourceAvailabilities']_vars

\* C17 witness: a run deleted a location row and a resource row and kept a
\* row that is not past.
C17_Witness ==
  /\ cleanup.ran /\ cleanup.locationDeleted = 1 /\ cleanup.resourceDeleted = 1
  /\ cleanup.totalDeleted = 2
  /\ resourceAvailabilities # {}

\* C18: a request to PUT /:id/status by a user with the admin role to set an
\* existing Event to completed is accepted and leaves the Event completed.
C18_AdminSetsCompleted ==
  [][Serves("putstatus") =>
     \A u \in Users :
       (event.exists /\ u.role = requireAdminRole /\ PutStatus(u, "completed"))
         => (resp'.code = 200 /\ event'.status = "completed")]_vars

\* ------------------------------------------------- placement of allocations
\* The departments whose list holds an allocation with the requirement id.
HoldersOf(dr, rid) == {dr[i].dept : i \in {k \in DOMAIN dr : FindReq(dr[k].reqs, rid) # 0}}

\* The positions of a list that hold the requirement id.
PositionsOf(reqs, rid) == {j \in DOMAIN reqs : reqs[j].id = rid}

\* C21: no requirement id is present in the lists of two different
\* departments of the Event.
C21_AllocationInOneList ==
  event.exists =>
    \A rid \in ReqIds : Cardinality(HoldersOf(event.departmentRequirements, rid)) <= 1

\* C22: no department's allocation list of the Event holds two allocations
\* with the same requirement id.
C22_IdUniqueInList ==
  event.exists =>
    \A i \in DOMAIN event.departmentRequirements, rid \in ReqIds :
      Cardinality(PositionsOf(event.departmentRequirements[i].reqs, rid)) <= 1

\* C27: a per-allocation status or notes update by a member of department D
\* leaves the list of every department other than D as it was.
C27_UpdateStaysInOwnList ==
  [][(Serves("reqstatus") \/ Serves("notes")) =>
       \A u \in Users, rid \in ReqIds :
         ((\E st \in StatusInputs, dr \in ReasonInputs : UpdateStatus(u, rid, st, dr, StoreUp))
            \/ UpdateNotes(u, rid, "dn"))
           => \A d \in Departments \ {u.department} :
                ReqsOf(event'.departmentRequirements, d)
                  = ReqsOf(event.departmentRequirements, d)]_vars

\* C28: while the Event's status is approved, every allocation of every
\* department's list has requirementsStatus released.
C28_ApprovedMeansReleased ==
  (event.exists /\ event.status = "approved") =>
    \A p \in Placed(event.departmentRequirements) : p[3].requirementsStatus = "released"

\* ------------------------------------------------ attachments of an Event
\* multer's filename: file.fieldname-<Date.now()>-<random>, a fresh name for
\* every upload; the model numbers the files by the request that carries them.
NewAttachments(hasFiles) == IF hasFiles THEN <<served + 1>> ELSE <<>>

\* PATCH /:id/details, line 715: [...(event.attachments || []), ...newAttachments]
AppendAttachments(stored, newAttachments) == stored \o newAttachments

\* PATCH /:id/details, lines 647-752: the request reads the Event, checks it
\* and builds updateData; `hasFiles` says files.attachments is not empty and
\* `valid` that the required fields are present.
DetailsRead(s, u, hasFiles, valid) ==
  /\ served < MaxRequests
  /\ uploads[s].pc = "idle"
  /\ UNCHANGED <<event, others, now, sweep, edit, activityLogs,
                 resourceAvailabilities, listing, cleanup, attachments,
                 eventReports, reportsStatus, reportReqs, availReqs, statusReqs,
                 socketRooms, connectedUsers, notificationReads>>
  /\ IF ~event.exists
     THEN Respond("details", 404) /\ UNCHANGED uploads
     ELSE IF ~IsOwner(event, u)
     THEN Respond("details", 403) /\ UNCHANGED uploads
     ELSE IF event.status # "submitted"
     THEN Respond("details", 400) /\ UNCHANGED uploads
     ELSE IF ~valid
     THEN Respond("details", 400) /\ UNCHANGED uploads
     ELSE /\ uploads' = [uploads EXCEPT ![s] =
                 [pc |-> "write",
                  newAttachments |-> NewAttachments(hasFiles),
                  attachments |->
                    IF hasFiles
                    THEN <<AppendAttachments(attachments, NewAttachments(hasFiles))>>
                    ELSE <<>>]]
          /\ served' = served + 1
          /\ UNCHANGED resp

\* PATCH /:id/details, lines 754-776: Event.findByIdAndUpdate(id, updateData)
\* sets the attachments updateData carries, and the request is answered.
DetailsWrite(s) ==
  /\ uploads[s].pc = "write"
  /\ uploads' = [uploads EXCEPT ![s] = RequestIdle]
  /\ resp' = [op |-> "details", code |-> IF event.exists THEN 200 ELSE 500]
  /\ attachments' =
       IF event.exists /\ uploads[s].attachments # <<>>
       THEN uploads[s].attachments[1] ELSE attachments
  /\ UNCHANGED <<event, others, served, now, sweep, edit, activityLogs,
                 resourceAvailabilities, listing, cleanup,
                 eventReports, reportsStatus, reportReqs, availReqs, statusReqs,
                 socketRooms, connectedUsers, notificationReads>>

NextFiles ==
  \/ \E u \in Requestors, form \in FormRequirements, missing \in BOOLEAN :
       CreateEvent(u, form, FixedSchedule, FixedLocation, missing)
  \/ \E u \in Users, st \in {"approved", "submitted"} : PatchStatus(u, st, None)
  \/ \E s \in RequestSlots, u \in Users, hasFiles \in BOOLEAN, valid \in BOOLEAN :
       DetailsRead(s, u, hasFiles, valid)
  \/ \E s \in RequestSlots : DetailsWrite(s)

SpecFiles == Init /\ [][NextFiles]_vars

\* C23: an accepted detail edit leaves every attachment stored before it, and
\* every attachment it uploads, on the Event.
C23_AttachmentsAppendOnly ==
  [][\A s \in RequestSlots :
       (DetailsWrite(s) /\ resp'.code = 200)
         => /\ Range(attachments) \subseteq Range(attachments')
            /\ Range(uploads[s].newAttachments) \subseteq Range(attachments')]_vars

\* ---------------------------------------------------- reports of an Event
\* The report slots of EventSchema.eventReports.
reportTypes == {"completionReport", "postActivityReport", "assessmentReport", "feedbackForm"}

\* Upload, line 78: the statuses of an Event that accepts reports.
allowedStatuses == {"approved", "ongoing", "submitted", "completed"}

\* Delete, lines 221-224: isCreator || isRequestor; event.requestor is the
\* requestor's name as the submission form gives it.
IsCreatorOrRequestor(e, u) ==
  \/ ~StrictNotEqual(toString(CreatedBy(e)), toString(UserId(u)))
  \/ ~StrictNotEqual([type |-> "string", hex |-> "Requestor Name"], toString(UserId(u)))

\* Upload, lines 121-125, and delete, lines 263-267: every slot is uploaded.
allReportsUploaded(slots) == reportTypes \subseteq slots

\* The reportsStatus the handlers assign, lines 128-133 and 269.
ReportsStatusOf(slots) == IF allReportsUploaded(slots) THEN "completed" ELSE "pending"

\* The document a report request holds between findById and save(): its
\* eventReports, its reportsStatus, and whether the assignment of reportsStatus
\* changed the value read, which is when save() writes the path.
ReportDoc(slots) ==
  [pc |-> "save", eventReports |-> slots,
   statusModified |-> ReportsStatusOf(slots) # reportsStatus,
   reportsStatus |-> ReportsStatusOf(slots)]

\* POST /:eventId/upload, lines 60-133: the request reads the Event, checks it
\* and fills the slots of the files it carries.
ReportUploadRead(s, u, uploaded) ==
  /\ served < MaxRequests
  /\ reportReqs[s].pc = "idle"
  /\ UNCHANGED <<event, others, now, sweep, edit, activityLogs,
                 resourceAvailabilities, listing, cleanup, attachments, uploads,
                 eventReports, reportsStatus, availReqs, statusReqs,
                 socketRooms, connectedUsers, notificationReads>>
  /\ IF ~event.exists
     THEN Respond("upload", 404) /\ UNCHANGED reportReqs
     ELSE IF StrictNotEqual(toString(CreatedBy(event)), toString(UserId(u)))
     THEN Respond("upload", 403) /\ UNCHANGED reportReqs
     ELSE IF event.status \notin allowedStatuses
     THEN Respond("upload", 400) /\ UNCHANGED reportReqs
     ELSE IF uploaded = {}
     THEN Respond("upload", 400) /\ UNCHANGED reportReqs
     ELSE /\ reportReqs' = [reportReqs EXCEPT ![s] = ReportDoc(eventReports \cup uploaded)]
          /\ served' = served + 1
          /\ UNCHANGED resp

\* DELETE /:eventId/reports/:reportType, lines 212-269: the request reads the
\* Event, checks it and empties the slot.
ReportDeleteRead(s, u, reportType) ==
  /\ served < MaxRequests
  /\ reportReqs[s].pc = "idle"
  /\ UNCHANGED <<event, others, now, sweep, edit, activityLogs,
                 resourceAvailabilities, listing, cleanup, attachments, uploads,
                 eventReports, reportsStatus, availReqs, statusReqs,
                 socketRooms, connectedUsers, notificationReads>>
  /\ IF ~event.exists
     THEN Respond("delreport", 404) /\ UNCHANGED reportReqs
     ELSE IF ~IsCreatorOrRequestor(event, u)
     THEN Respond("delreport", 403) /\ UNCHANGED reportReqs
     ELSE IF reportType \notin reportTypes
     THEN Respond("delreport", 400) /\ UNCHANGED reportReqs
     ELSE /\ reportReqs' = [reportReqs EXCEPT ![s] = ReportDoc(eventReports \ {reportType})]
          /\ served' = served + 1
          /\ UNCHANGED resp

\* event.markModified('eventReports'); await event.save(), lines 136-152 and
\* 272-287: save() writes the paths modified on the document, the whole
\* eventReports and reportsStatus when its value changed, and the request is
\* answered.
ReportSave(s) ==
  /\ reportReqs[s].pc = "save"
  /\ reportReqs' = [reportReqs EXCEPT ![s] = RequestIdle]
  /\ eventReports' = IF event.exists THEN reportReqs[s].eventReports ELSE eventReports
  /\ reportsStatus' =
       IF event.exists /\ reportReqs[s].statusModified
       THEN reportReqs[s].reportsStatus ELSE reportsStatus
  /\ resp' = [op |-> "report", code |-> IF event.exists THEN 200 ELSE 500]
  /\ UNCHANGED <<event, others, served, now, sweep, edit, activityLogs,
                 resourceAvailabilities, listing, cleanup, attachments, uploads,
                 availReqs, statusReqs,
                 socketRooms, connectedUsers, notificationReads>>

NextReports ==
  \/ \E u \in Requestors, missing \in BOOLEAN :
       CreateEvent(u, <<>>, FixedSchedule, FixedLocation, missing)
  \/ \E u \in Users, st \in {"approved", "rejected"} : PatchStatus(u, st, None)
  \/ \E s \in RequestSlots, u \in Users,
        uploaded \in {{}, {"completionReport"}, {"feedbackForm"},
                      {"postActivityReport", "assessmentReport", "feedbackForm"},
                      reportTypes} :
       ReportUploadRead(s, u, uploaded)
  \/ \E s \in RequestSlots, u \in Users, reportType \in {"completionReport", "feedbackForm", "summary"} :
       ReportDeleteRead(s, u, reportType)
  \/ \E s \in RequestSlots : ReportSave(s)

SpecReports == Init /\ [][NextReports]_vars

\* C24: reportsStatus of the Event is completed exactly when all four report
\* slots hold an uploaded file, and pending otherwise.
C24_ReportsStatusIffAllUploaded ==
  event.exists =>
    /\ reportsStatus \in {"pending", "completed"}
    /\ reportsStatus = "completed" <=> eventReports = reportTypes

\* ------------------------------------------ creation of availability records
KeyTaken_noIndex(keys, key) == FALSE

\* The unique indexes of ResourceAvailabilitySchema and
\* LocationAvailabilitySchema: an insert whose key is taken fails with E11000.
KeyTaken(keys, key) == key \in keys

\* ResourceAvailabilitySchema.index({departmentId, requirementId, date}, unique)
ResourceKey(ra) == <<ra.departmentName, ra.requirementText, ra.date>>

\* LocationAvailabilitySchema.index({date, locationName}, unique)
LocationKey(la) == <<la.date, la.locationName>>

\* availability.save() of a new ResourceAvailability.
InsertResource(ras, doc) ==
  IF KeyTaken({ResourceKey(ra) : ra \in ras}, ResourceKey(doc))
  THEN [ok |-> FALSE, rows |-> ras]
  ELSE [ok |-> TRUE, rows |-> ras \cup {doc}]

\* save() of a new LocationAvailability, and LocationAvailability.create.
InsertLocation(las, doc) ==
  IF KeyTaken({LocationKey(la) : la \in las}, LocationKey(doc))
  THEN [ok |-> FALSE, rows |-> las]
  ELSE [ok |-> TRUE, rows |-> las \cup {doc}]

\* POST /availability, lines 60-87: the request validates its body and looks
\* for the record of the key.
ResourceFind(s, deptName, text, date, quantity) ==
  /\ served < MaxRequests
  /\ availReqs[s].pc = "idle"
  /\ UNCHANGED <<event, locationAvailabilities, resourceAvailabilities, notifications,
                 statusNotifications, now, sweep, edit, activityLogs, listing,
                 cleanup, attachments, uploads, eventReports, reportsStatus,
                 reportReqs, statusReqs, socketRooms, connectedUsers,
                 notificationReads>>
  /\ IF ~Truthy(text)
     THEN Respond("availability", 400) /\ UNCHANGED availReqs
     ELSE /\ availReqs' = [availReqs EXCEPT ![s] =
                 [pc |-> "resource",
                  existing |-> FindAvailability(resourceAvailabilities, deptName, text, date) # {},
                  doc |-> [departmentName |-> deptName, requirementText |-> text,
                           date |-> date, quantity |-> quantity]]]
          /\ served' = served + 1
          /\ UNCHANGED resp

\* POST /availability, lines 89-133: save() of the record found, or of a new
\* one; a duplicate key is answered 400.
ResourceSave(s) ==
  /\ availReqs[s].pc = "resource"
  /\ availReqs' = [availReqs EXCEPT ![s] = RequestIdle]
  /\ UNCHANGED <<event, locationAvailabilities, served, notifications,
                 statusNotifications, now, sweep, edit, activityLogs, listing,
                 cleanup, attachments, uploads, eventReports, reportsStatus,
                 reportReqs, statusReqs, socketRooms, connectedUsers,
                 notificationReads>>
  /\ LET doc == availReqs[s].doc
         inserted == InsertResource(resourceAvailabilities,
                       [doc EXCEPT !.quantity = IF TruthyNumber(@) THEN @ ELSE 1])
     IN IF availReqs[s].existing
        THEN /\ resourceAvailabilities' =
                  {IF ResourceKey(ra) = ResourceKey(doc) /\ doc.quantity # NoQuantity
                   THEN [ra EXCEPT !.quantity = doc.quantity] ELSE ra :
                     ra \in resourceAvailabilities}
             /\ resp' = [op |-> "availability", code |-> 200]
        ELSE /\ resourceAvailabilities' = inserted.rows
             /\ resp' = [op |-> "availability", code |-> IF inserted.ok THEN 200 ELSE 400]

\* String.prototype.toLowerCase on the location names of the model.
toLowerCase(name) == IF name = "CustomRoom" THEN "customroom" ELSE name

\* findOne({date, locationName: {$regex: `^${locationName}$`, $options: 'i'}})
FindLocationIgnoreCase(las, date, locationName) ==
  {la \in las : la.date = date /\ toLowerCase(la.locationName) = toLowerCase(locationName)}

\* POST /api/location-availability, lines 94-138: the request validates its
\* body and looks for a record of the location on the date.
LocationFind(s, date, locationName, capacity, status) ==
  /\ served < MaxRequests
  /\ availReqs[s].pc = "idle"
  /\ UNCHANGED <<event, locationAvailabilities, resourceAvailabilities, notifications,
                 statusNotifications, now, sweep, edit, activityLogs, listing,
                 cleanup, attachments, uploads, eventReports, reportsStatus,
                 reportReqs, statusReqs, socketRooms, connectedUsers,
                 notificationReads>>
  /\ IF capacity = NoQuantity
     THEN Respond("location", 400) /\ UNCHANGED availReqs
     ELSE IF capacity < 1
     THEN Respond("location", 400) /\ UNCHANGED availReqs
     ELSE IF status \notin {"available", "unavailable"}
     THEN Respond("location", 400) /\ UNCHANGED availReqs
     ELSE IF FindLocationIgnoreCase(locationAvailabilities, date, locationName) # {}
     THEN Respond("location", 409) /\ UNCHANGED availReqs
     ELSE /\ availReqs' = [availReqs EXCEPT ![s] =
                 [pc |-> "location",
                  doc |-> [date |-> date, locationName |-> locationName,
                           capacity |-> capacity, status |-> status]]]
          /\ served' = served + 1
          /\ UNCHANGED resp

\* POST /api/location-availability, lines 140-170: save() of the new record;
\* an error of the save is answered 500.
LocationSave(s) ==
  /\ availReqs[s].pc = "location"
  /\ availReqs' = [availReqs EXCEPT ![s] = RequestIdle]
  /\ UNCHANGED <<event, resourceAvailabilities, served, notifications,
                 statusNotifications, now, sweep, edit, activityLogs, listing,
                 cleanup, attachments, uploads, eventReports, reportsStatus,
                 reportReqs, statusReqs, socketRooms, connectedUsers,
                 notificationReads>>
  /\ LET inserted == InsertLocation(locationAvailabilities, availReqs[s].doc)
     IN /\ locationAvailabilities' = inserted.rows
        /\ resp' = [op |-> "location", code |-> IF inserted.ok THEN 201 ELSE 500]

\* POST /api/events, lines 1179-1236: the Event is saved, and for a custom
\* location the request looks for the record of the location on the start date.
SubmitFind(s, u, schedule, location, missing) ==
  /\ served < MaxRequests
  /\ availReqs[s].pc = "idle"
  /\ ~event.exists
  /\ UNCHANGED <<locationAvailabilities, resourceAvailabilities, notifications,
                 statusNotifications, now, sweep, edit, activityLogs, listing,
                 cleanup, attachments, uploads, eventReports, reportsStatus,
                 reportReqs, statusReqs, socketRooms, connectedUsers,
                 notificationReads>>
  /\ IF missing
     THEN Respond("create", 400) /\ UNCHANGED <<event, availReqs>>
     ELSE /\ event' = NewEvent(u, <<>>, schedule, location)
          /\ IF location \in predefinedLocations
             THEN Respond("create", 201) /\ UNCHANGED availReqs
             ELSE /\ availReqs' = [availReqs EXCEPT ![s] =
                       [pc |-> "auto",
                        existing |-> \E la \in locationAvailabilities :
                                       la.date = schedule.startDate /\ la.locationName = location,
                        doc |-> [date |-> schedule.startDate, locationName |-> location,
                                 capacity |-> 1, status |-> "available"]]]
                  /\ served' = served + 1
                  /\ UNCHANGED resp

\* POST /api/events, lines 1238-1275: LocationAvailability.create unless a
\* record was found; its error is caught and logged, and the request is
\* answered 201.
SubmitAutoCreate(s) ==
  /\ availReqs[s].pc = "auto"
  /\ availReqs' = [availReqs EXCEPT ![s] = RequestIdle]
  /\ UNCHANGED <<event, resourceAvailabilities, served, notifications,
                 statusNotifications, now, sweep, edit, activityLogs, listing,
                 cleanup, attachments, uploads, eventReports, reportsStatus,
                 reportReqs, statusReqs, socketRooms, connectedUsers,
                 notificationReads>>
  /\ locationAvailabilities' =
       IF availReqs[s].existing THEN locationAvailabilities
       ELSE InsertLocation(locationAvailabilities, availReqs[s].doc).rows
  /\ resp' = [op |-> "create", code |-> 201]

NextUnique ==
  \/ \E s \in RequestSlots, text \in {None, "n1"}, date \in 0..MaxDay, q \in {NoQuantity, 0, 2} :
       ResourceFind(s, "A", text, date, q)
  \/ \E s \in RequestSlots : ResourceSave(s)
  \/ \E s \in RequestSlots, name \in {"CustomRoom", "customroom"}, c \in {NoQuantity, 0, 5},
        st \in {"available", "closed"} :
       LocationFind(s, 0, name, c, st)
  \/ \E s \in RequestSlots : LocationSave(s)
  \/ \E s \in RequestSlots, u \in Requestors, loc \in Locations, missing \in BOOLEAN :
       SubmitFind(s, u, FixedSchedule, loc, missing)
  \/ \E s \in RequestSlots : SubmitAutoCreate(s)

SpecUnique == Init /\ [][NextUnique]_vars

\* C25: at most one Resource Availability record exists per (department,
\* requirement, date) and at most one Location Availability record per
\* (location, date).
C25_AvailabilityUniquePerKey ==
  /\ \A r1, r2 \in resourceAvailabilities : ResourceKey(r1) = ResourceKey(r2) => r1 = r2
  /\ \A l1, l2 \in locationAvailabilities : LocationKey(l1) = LocationKey(l2) => l1 = l2

\* C25 witness: two requests found no record of the same key, one has created
\* it with other values, and the other is about to save its own (a resource
\* record, or a location record).
C25_Witness ==
  \E s \in RequestSlots :
    /\ availReqs[s].pc \in {"resource", "location", "auto"}
    /\ availReqs[s].pc = "resource" => ~availReqs[s].existing
    /\ availReqs[s].pc = "auto" => ~availReqs[s].existing
    /\ LET doc == availReqs[s].doc
       IN IF availReqs[s].pc = "resource"
          THEN \E ra \in resourceAvailabilities :
                 ResourceKey(ra) = ResourceKey(doc) /\ ra.quantity # (IF TruthyNumber(doc.quantity) THEN doc.quantity ELSE 1)
          ELSE \E la \in locationAvailabilities :
                 LocationKey(la) = LocationKey(doc) /\ la.capacity # doc.capacity

\* ------------------------------------- overlapping writers of one Event
\* PATCH status, lines 131-182: the request reads the Event, checks it and
\* sets the status on its own copy of the document.
StatusRead(s, u, rid, status, declineReason) ==
  /\ served < MaxRequests
  /\ statusReqs[s].pc = "idle"
  /\ UNCHANGED <<event, notifications, statusNotifications, locationAvailabilities,
                 now, sweep, edit, activityLogs, resourceAvailabilities, listing,
                 cleanup, attachments, uploads, eventReports, reportsStatus,
                 reportReqs, availReqs, socketRooms, connectedUsers,
                 notificationReads>>
  /\ IF ~event.exists
     THEN Respond("reqstatus", 404) /\ UNCHANGED statusReqs
     ELSE IF ~IsTagged(event, u.department)
     THEN Respond("reqstatus", 403) /\ UNCHANGED statusReqs
     ELSE IF FindEntry(event.departmentRequirements, rid) = 0
     THEN Respond("reqstatus", 404) /\ UNCHANGED statusReqs
     ELSE /\ statusReqs' = [statusReqs EXCEPT ![s] =
                 [pc |-> "save", requirementId |-> rid, status |-> status,
                  oldStatus |-> OldStatus(event.departmentRequirements, rid),
                  departmentRequirements |->
                    SetStatus(event.departmentRequirements, rid, status, declineReason)]]
          /\ served' = served + 1
          /\ UNCHANGED resp

SavedMap_merged(stored, req) ==
  IF FindEntry(stored, req.requirementId) = 0 THEN stored
  ELSE SetStatus(stored, req.requirementId, req.status, None)

\* event.markModified('departmentRequirements'); await event.save(), lines
\* 172-184: the save writes the whole departmentRequirements of the request's
\* copy over the stored one.
SavedMap(stored, req) == req.departmentRequirements

\* PATCH status, lines 184-283: the save, the notifications of a changed
\* status and the response.
StatusSave(s) ==
  /\ statusReqs[s].pc = "save"
  /\ event.exists
  /\ statusReqs' = [statusReqs EXCEPT ![s] = RequestIdle]
  /\ UNCHANGED <<served, locationAvailabilities, now, sweep, edit, activityLogs,
                 resourceAvailabilities, listing, cleanup, attachments, uploads,
                 eventReports, reportsStatus, reportReqs, availReqs, socketRooms,
                 connectedUsers, notificationReads>>
  /\ LET req == statusReqs[s]
         doc == StatusNotificationDoc(event, req.requirementId)
         first == StatusChanged(req.oldStatus, req.status) /\ NotificationSaved(doc, TRUE)
     IN /\ event' = [event EXCEPT
                       !.departmentRequirements = SavedMap(@, req)]
        /\ notifications' = IF first THEN notifications \cup {doc} ELSE notifications
        /\ statusNotifications' =
             IF first
             THEN Append(statusNotifications,
                         [requirementId |-> req.requirementId, oldStatus |-> req.oldStatus,
                          newStatus |-> req.status])
             ELSE statusNotifications
        /\ resp' = [op |-> "reqstatus",
                    code |-> NotifyOutcomeCode(~StatusChanged(req.oldStatus, req.status) \/ first)]

NextRace ==
  \/ \E u \in Requestors, form \in {f \in FormRequirements : SumLens(f) = 2}, missing \in BOOLEAN :
       CreateEvent(u, form, FixedSchedule, FixedLocation, missing)
  \/ \E u \in Users : PatchStatus(u, "approved", None)
  \/ \E s \in RequestSlots, u \in Users, rid \in ReqIds, st \in StatusInputs :
       StatusRead(s, u, rid, st, None)
  \/ \E s \in RequestSlots : StatusSave(s)

SpecRace == Init /\ [][NextRace]_vars

\* C26: the save of a per-allocation status update stores the
\* departmentRequirements of the copy the request read and changed; whatever
\* another writer stored between the read and the save (another allocation's
\* status, the release of an approval) is absent from the Event afterwards,
\* so an acknowledged change can be lost.
C26_SaveOverwritesWholeMap ==
  [][\A s \in RequestSlots :
       StatusSave(s) =>
         /\ event'.departmentRequirements = statusReqs[s].departmentRequirements
         /\ resp'.code = 200]_vars

\* C26 witness: both status requests are answered with success, the
\* requestor was notified of the new status of an allocation, and the stored
\* allocation is still pending.
C26_Witness ==
  /\ \A s \in RequestSlots : statusReqs[s].pc = "idle"
  /\ Served("reqstatus")
  /\ event.exists
  /\ \E n \in notifications :
       LET dr == event.departmentRequirements
           i == FindEntry(dr, n.requirementId)
       IN i # 0 /\ dr[i].reqs[FindReq(dr[i].reqs, n.requirementId)].status = "pending"

\* ------------------------------------------------------ socket.io rooms
\* The user whose client opened the connection; the server keeps no record of it.
SocketOwner(c) == IF c = "s1" THEN "u1" ELSE "u2"

\* `user-${userId}` and `conversation-${conversationId}`
Room(kind, id) == <<kind, id>>

\* connectedUsers.set(userId, socket.id): an existing key keeps its place.
MapSet(entries, userId, socketId) ==
  IF \E i \in DOMAIN entries : entries[i].userId = userId
  THEN [i \in DOMAIN entries |->
          IF entries[i].userId = userId THEN [entries[i] EXCEPT !.socketId = socketId]
          ELSE entries[i]]
  ELSE Append(entries, [userId |-> userId, socketId |-> socketId])

\* The disconnect handler, lines 183-191: the first entry of the socket is deleted.
DeleteFirstOf(entries, socketId) ==
  IF \E i \in DOMAIN entries : entries[i].socketId = socketId
  THEN LET i == CHOOSE k \in DOMAIN entries :
                  entries[k].socketId = socketId
                  /\ \A j \in 1..(k - 1) : entries[j].socketId # socketId
       IN SubSeq(entries, 1, i - 1) \o SubSeq(entries, i + 1, Len(entries))
  ELSE entries

\* socket.on('join-user-room'), lines 152-166: the userId is the client's
\* argument.
JoinUserRoom(c, userId) ==
  /\ connectedUsers' = MapSet(connectedUsers, userId, c)
  /\ socketRooms' = [socketRooms EXCEPT ![c] = @ \cup {Room("user", userId)}]
  /\ UNCHANGED <<event, notifications, statusNotifications, locationAvailabilities,
                 resp, served, now, sweep, edit, activityLogs, resourceAvailabilities,
                 listing, cleanup, attachments, uploads, eventReports, reportsStatus,
                 reportReqs, availReqs, statusReqs, notificationReads>>

\* socket.on('join-conversation'), lines 174-176.
JoinConversation(c, conversationId) ==
  /\ socketRooms' = [socketRooms EXCEPT ![c] = @ \cup {Room("conversation", conversationId)}]
  /\ UNCHANGED <<connectedUsers, event, notifications, statusNotifications,
                 locationAvailabilities, resp, served, now, sweep, edit, activityLogs,
                 resourceAvailabilities, listing, cleanup, attachments, uploads,
                 eventReports, reportsStatus, reportReqs, availReqs, statusReqs,
                 notificationReads>>

\* socket.on('leave-conversation'), lines 179-181.
LeaveConversation(c, conversationId) ==
  /\ socketRooms' = [socketRooms EXCEPT ![c] = @ \ {Room("conversation", conversationId)}]
  /\ UNCHANGED <<connectedUsers, event, notifications, statusNotifications,
                 locationAvailabilities, resp, served, now, sweep, edit, activityLogs,
                 resourceAvailabilities, listing, cleanup, attachments, uploads,
                 eventReports, reportsStatus, reportReqs, availReqs, statusReqs,
                 notificationReads>>

\* socket.on('disconnect'), lines 183-191: socket.io takes the socket out of
\* its rooms and the handler clears its entry.
Disconnect(c) ==
  /\ socketRooms' = [socketRooms EXCEPT ![c] = {}]
  /\ connectedUsers' = DeleteFirstOf(connectedUsers, c)
  /\ UNCHANGED <<event, notifications, statusNotifications, locationAvailabilities,
                 resp, served, now, sweep, edit, activityLogs, resourceAvailabilities,
                 listing, cleanup, attachments, uploads, eventReports, reportsStatus,
                 reportReqs, availReqs, statusReqs, notificationReads>>

\* io.to(`user-${userId}`).emit(...), events.ts lines 205-216: the connections
\* that receive what is pushed to the user's room.
Receivers(userId) == {c \in Sockets : Room("user", userId) \in socketRooms[c]}

NextSockets ==
  \/ \E c \in Sockets, u \in Users : JoinUserRoom(c, u.id)
  \/ \E c \in Sockets, id \in {"c1"} : JoinConversation(c, id)
  \/ \E c \in Sockets, id \in {"c1"} : LeaveConversation(c, id)
  \/ \E c \in Sockets : Disconnect(c)

SpecSockets == Init /\ [][NextSockets]_vars

\* C29: a connection receives what is pushed to user u's personal room only
\* if it is a connection of user u.
C29_UserRoomIsOwn ==
  \A u \in Users : \A c \in Receivers(u.id) : SocketOwner(c) = u.id

\* --------------------------------------------------- read notifications
\* NotificationRead.findOne({userId, notificationId})
FindRead(reads, userId, notificationId) ==
  {r \in reads : r.userId = userId /\ r.notificationId = notificationId}

\* NotificationReadSchema.notificationId, unique: true: save() of a record
\* whose notificationId a stored record has fails with E11000.
ReadIdTaken(reads, notificationId) == \E r \in reads : r.notificationId = notificationId

\* POST /api/notifications/mark-read
MarkRead(u, notificationId) ==
  /\ served < MaxRequests
  /\ UNCHANGED <<event, others, now, sweep, edit, activityLogs, resourceAvailabilities,
                 listing, cleanup, attachments, uploads,
                 eventReports, reportsStatus, reportReqs, availReqs, statusReqs,
                 socketRooms, connectedUsers>>
  /\ IF ~Truthy(u.id)
     THEN Respond("markread", 401) /\ UNCHANGED notificationReads
     ELSE IF FindRead(notificationReads, u.id, notificationId) # {}
     THEN Respond("markread", 200) /\ UNCHANGED notificationReads
     ELSE IF ReadIdTaken(notificationReads, notificationId)
     THEN Respond("markread", 500) /\ UNCHANGED notificationReads
     ELSE /\ notificationReads' =
               notificationReads \cup
                 {[userId |-> u.id, notificationId |-> notificationId, eventId |-> EventId]}
          /\ Respond("markread", 200)

NextReads ==
  \E u \in Users, n \in {"n1", "n2", "n3"} : MarkRead(u, n)

SpecReads == Init /\ [][NextReads]_vars

\* C30: a mark-read request by user u for notification n succeeds and leaves
\* exactly one read record of (u, n), whoever has marked n as read before.
C30_MarkReadPerUser ==
  [][Serves("markread") => \A u \in Users, n \in {"n1", "n2", "n3"} :
       MarkRead(u, n)
         => /\ resp'.code = 200
            /\ Cardinality(FindRead(notificationReads', u.id, n)) = 1]_vars
====
